---- MODULE Spec2Model ----
(***************************************************************************)
(* A model of src/libs/database/comicvine/cvimprints.py: the imprint       *)
(* resolver find_parent_publisher with its two tables, and the script at   *)
(* the bottom of the module that scrapes the ComicVine publisher listing   *)
(* page by page and reports how it differs from the tables.                *)
(*                                                                         *)
(* A string is a sequence of one-character strings, so that strip() is     *)
(* computed character by character.                                        *)
(***************************************************************************)
EXTENDS Naturals, Integers, Sequences, FiniteSets, Bags, TLC

VARIABLES
    \* ---- the module's tables
    imprint_map,         \* the dict __imprint_map
    other_publishers,    \* the frozenset __other_publishers
    \* ---- a second caller of find_parent_publisher
    rpc2,
    arg2,
    ret2,
    \* ---- a caller of find_parent_publisher
    rpc,                 \* "idle", "called" (the call is running), "returned"
    arg,                 \* the string the caller passed in
    ret,                 \* the string the call returned
    \* ---- the script under  if __name__ == '__main__'
    pc,                  \* position in the script
    page,                \* the page counter
    html,                \* the body read for the current page
    matches,             \* the names extracted from the current page
    done,                \* the loop flag
    scraped_publishers,  \* the accumulated names
    reader,              \* module-level names bound in the try block:
    responseStream,      \*   a handle, or Unbound while the name is not
    response,            \*   in vars()
    exc,                 \* the exception in flight in the try block
    closes,              \* handle -> number of Close() calls it received
    requests,            \* the page numbers requested, in order
    out,                 \* the lines printed, as a bag
    all_clear,           \* the flag of the report
    wex,                 \* the exception the except clause bound, or Unbound
    earlier              \* the names of the pages before the current one

tvars == <<imprint_map, other_publishers>>
cvars == <<rpc2, arg2, ret2>>
rvars == <<rpc, arg, ret>>
svars == <<pc, page, html, matches, done, scraped_publishers, reader,
           responseStream, response, exc, closes, requests, out, all_clear, wex,
           earlier>>
vars == <<imprint_map, other_publishers, rpc2, arg2, ret2, rpc, arg, ret, pc, page, html, matches, done, scraped_publishers,
          reader, responseStream, response, exc, closes, requests, out,
          all_clear, wex, earlier>>

----------------------------------------------------------------------------
(* Bounds *)

\* the longest run of whitespace put before and after an input string
MaxPad == 2

----------------------------------------------------------------------------
(* Strings *)

\* the characters str.strip() removes (\x0b has no TLA+ escape: "VT")
Whitespace == {" ", "\t", "\n", "\r", "\f", "VT"}

RECURSIVE lstrip(_)
lstrip(s) ==
    IF s = <<>> THEN s
    ELSE IF Head(s) \in Whitespace THEN lstrip(Tail(s)) ELSE s

RECURSIVE rstrip(_)
rstrip(s) ==
    IF s = <<>> THEN s
    ELSE IF s[Len(s)] \in Whitespace THEN rstrip(SubSeq(s, 1, Len(s) - 1))
    ELSE s

strip(s) == rstrip(lstrip(s))

----------------------------------------------------------------------------
(* The tables as the module writes them, a name being a TLA+ string.  A    *)
(* character outside ASCII is written {U+hhhh}.                            *)

\* lines 123-140 with "Tokuma Shoten" left out
other_publishers_parents_short == {
    "Marvel",
    "DC Comics",
    "Dark Horse Comics",
    "Malibu",
    "Amryl Entertainment",
    "Avatar Press",
    "Wizard",
    "Tokyopop",
    "Dynamite Entertainment",
    "Image",
    "Heroic Publishing",
    "Penguin Group",
    "Hakusensha",
    "Ape Entertainment",
    "Nbm",
    "Radio Comix",
    "Slg Publishing" }

\* lines 123-140 with the imprint "Wildstorm" listed as a publisher
other_publishers_parents_wildstorm == {
    "Marvel",
    "DC Comics",
    "Dark Horse Comics",
    "Malibu",
    "Amryl Entertainment",
    "Avatar Press",
    "Wizard",
    "Tokyopop",
    "Dynamite Entertainment",
    "Image",
    "Heroic Publishing",
    "Penguin Group",
    "Hakusensha",
    "Ape Entertainment",
    "Nbm",
    "Radio Comix",
    "Slg Publishing",
    "Tokuma Shoten",
    "Wildstorm" }

\* lines 123-140: the publishers that have at least one imprint
other_publishers_parents == {
    "Marvel",
    "DC Comics",
    "Dark Horse Comics",
    "Malibu",
    "Amryl Entertainment",
    "Avatar Press",
    "Wizard",
    "Tokyopop",
    "Dynamite Entertainment",
    "Image",
    "Heroic Publishing",
    "Penguin Group",
    "Hakusensha",
    "Ape Entertainment",
    "Nbm",
    "Radio Comix",
    "Slg Publishing",
    "Tokuma Shoten" }

\* lines 141-1421
other_publishers_rest == {
    "01Comics.com",
    "12 Gates Productions",
    "12-Gauge Comics",
    "1st Amendment Publishing",
    "2-D Graphics",
    "20000 Leagues",
    "215 INK",
    "21st Century Sandshark Studios",
    "24 Hour Cynic",
    "2Werk",
    "3 Finger Prints",
    "3-D Zone",
    "3-M",
    "360ep",
    "3DO Comics",
    "3H Productions",
    "3ntini Editore",
    "4 Winds",
    "5th Panel Comics",
    "801 Media",
    "803 Studios",
    "88 MPH",
    "8th Day Entertainment",
    "9th Circle Studios",
    "A",
    "A D Vision",
    "A Division Of Malibu Graphics",
    "A List Comics",
    "A Silent Comics Inc",
    "A Wave Blue World",
    "A-Plus",
    "A.M. Works",
    "A.R.C.",
    "A10 Comics",
    "AAA Milwaukee",
    "AAA Pop",
    "AC",
    "ADV Manga",
    "AKA Comics",
    "ANIA",
    "APComics",
    "AS Film Inform",
    "Aardvark",
    "Aardwolf Productions",
    "Aazurn",
    "Abaculus",
    "Abacus Press",
    "Abbeville Press",
    "Aberration Press",
    "Abiogenesis Press",
    "Ablaze Media",
    "Abnormal Fun",
    "About Comics",
    "Abril",
    "Absence Of Ink",
    "Absolute Blue Graphics",
    "Absolute Tyrant",
    "Abstract Studio",
    "Ac Collector Classics",
    "Academy Comics Ltd",
    "Acclaim",
    "Ace Comics",
    "Ace Magazines",
    "Ace Publications Inc",
    "Acetylene",
    "Acg",
    "Acid Rain Studios",
    "Acme",
    "Across The Pond Studios",
    "Action Folksinger",
    "Action Planet Comics",
    "Active Images",
    "Active Synapse",
    "Adhesive Comics",
    "Adhouse Books",
    "Adversary Comix",
    "Aeon",
    "Aerosol Press",
    "After Hours Press",
    "Afterburn Comics",
    "Aftershock Comics",
    "Age Of Heroes",
    "AiT/Planet Lar",
    "Airbrush",
    "Aircel Publishing",
    "Airship Entertainment",
    "Aja Blu Comix",
    "Ajax",
    "Ajax-Farrell",
    "Akita Shoten",
    "Al Fago Magazines",
    "Alamat Comics",
    "Albert Bonniers F",
    "Albin Michel",
    "Alchemy Studios",
    "Alchemy Texts",
    "Alfabeta",
    "Alias Enterprises",
    "Aliwan Comics",
    "All Thumbs Press",
    "All-Negro Comics",
    "Allers",
    "Allers Forlag",
    "Allied Comics",
    "Almighty Publishing",
    "Alpha Productions",
    "Alpha/Streck Enterprises",
    "Alpine Underground",
    "Alterna Comics",
    "Alternative Press",
    "Alvglans",
    "Amalgam Comics",
    "Amalgamated Press",
    "Amazing Aaron Productions",
    "Amazing Comics",
    "Amazing Creations Ink",
    "Ambrosia Publishing",
    "American Cancer Society",
    "American Comics Group",
    "American Friends Service Committee",
    "American Mule",
    "American Red Cross",
    "American Visuals Corporation",
    "Americanime",
    "Americomics",
    "Amerotica",
    "Anarchy Studios",
    "Andrews And Mcmeel",
    "Angel Entertainment",
    "Angel Gate Press",
    "Angry Viking Press",
    "Anime Works",
    "Another Rainbow",
    "Antarctic Press",
    "Anti-Ballistic Pixelations",
    "Anubis Press",
    "Anvil",
    "Apocalypse",
    "Apple",
    "Application Security, Inc.",
    "Approbation Comics",
    "Aragon",
    "Arcade Comics",
    "Arcana Studio",
    "Archaia Studios Press",
    "Archangel Studios",
    "Archie",
    "Archie Adventure Series",
    "Ardden Entertainment",
    "Argo Publications",
    "Aria Press",
    "Aries Publications",
    "Arleigh",
    "Armada",
    "Armageddon Press Inc.",
    "Arnoldo Mondadori Editore",
    "Arrache Coeur",
    "Arrow",
    "Arsenic Lullaby Publishing",
    "Askild",
    "Aspen MLT",
    "Asplunds",
    "Astonish Comics",
    "Astorina",
    "Astronaut Ink",
    "Asuka Comics",
    "Asylum Press",
    "Atari",
    "Atlantic F",
    "Atlantis Studios",
    "Atlas",
    "Atlas Comics",
    "Atomeka Press",
    "Atomic Basement",
    "August House",
    "Austintations",
    "Avalon Communications",
    "Aviation Comics",
    "Avon",
    "Awesome",
    "Azteca Productions",
    "B",
    "B & H Publishing Group",
    "B&D Pleasures",
    "BBC Books",
    "BBC Magazines",
    "BC",
    "BKR Comics",
    "BSV - Williams",
    "Baby Tattoo Books",
    "Bad Dog Books",
    "Bad Habit Books",
    "Bad Karma Productions",
    "Bad Press Ltd",
    "Badroach Publications",
    "Bagheera",
    "Bailey Publishing Co",
    "Bakh",
    "Bald Guy Studios",
    "Baldini Castoldi Dalai Editore",
    "Ball Publishing",
    "Ballantine Books",
    "Bam",
    "Banana Tales Press",
    "Bandai Entertainment",
    "Bang! Entertainment",
    "Bantam Books",
    "Barbour Christian Comics",
    "Basement Comics",
    "Bastei Verlag",
    "Battlebooks Incorporated",
    "Baychild Productions",
    "Beanworld Press",
    "Beckett",
    "Belif",
    "Bell Features",
    "Berghs",
    "Berkley Books",
    "Berserker Comics",
    "Best Destiny",
    "Best Friends Publication",
    "Beta 3",
    "Betel",
    "Beyond Time Comic",
    "Big Balloon",
    "Big Bang Comics",
    "Big City Comics",
    "Big Dog Ink",
    "Big Head Press",
    "Big Shot Comics",
    "Big Umbrella",
    "Bioroid Studios",
    "Bishop Press",
    "Black Boar Press",
    "Black Cat Comics",
    "Black Coat Comics",
    "Black Diamond Effect Inc.",
    "Black Eye",
    "Black Library",
    "Black Rock Design",
    "Black ball Comics",
    "Blackline Studios",
    "Blacklist Studios",
    "Blackmore",
    "Blackout",
    "Blackthorne",
    "Bladkompaniet As",
    "Blind Ferret",
    "Blind Wolf",
    "Bliss on Tap Publishing",
    "Bloodfire Studios",
    "Bloody Mary Comics",
    "Blue Comet Press",
    "Blue King Studios",
    "Bluewater Productions",
    "Bob Ross",
    "Bodog",
    "Boemerang",
    "Bokf",
    "Bokfabriken",
    "Bokomotiv",
    "Bompiani",
    "Bones",
    "Boneyard Press",
    "Bongo",
    "Bonnier Carlsen",
    "Bonniers Juniorf",
    "Boom! Studios",
    "Boundless Comics",
    "Brain Scan Studios",
    "Brainstorm",
    "Brave New Words",
    "Brett's Comic Pile Publishing",
    "Brick Computer Science Institute",
    "Broadsword Comics",
    "Broadway",
    "Broken Halos",
    "Broken Tree Comics",
    "Broken Voice Comics",
    "Brown Shoe Company",
    "Bruce Hershenson",
    "Bubblehead Publishing",
    "Budget Books",
    "Buffalo Books",
    "Bulletproof Comics",
    "Burlyman Entertainment",
    "Buymetoys.com",
    "C.A.M. Press",
    "C.C.A.S. Publication",
    "C.M.I. Corporativo Mexicano de Impresi{U+00F3}n",
    "CARNIVAL COMICS",
    "CBG",
    "CEA Casa Editrice Astoria",
    "CFW Enterprises",
    "Cackling Imp Press",
    "Cafe Digital",
    "Cahaba Producttions",
    "Caliber Comics",
    "California Comics",
    "Cambridge House Publishers",
    "Candle Light Press",
    "Candlewick Press",
    "Canew Ideas",
    "Capcom",
    "Capital Comics",
    "Capitol Stories",
    "Capstone Press",
    "Captain Clockwork",
    "Caption Comics",
    "Carabosse Comics",
    "Carbon-Based Comics",
    "Carlsen Comics",
    "Carlton Publishing",
    "Carnal Comics",
    "Carnopolis",
    "Carol Ediciones S.A. de C.V.",
    "Cartoon Art",
    "Cartoon Books",
    "Casa Editrice Dardo",
    "Casa Editrice Universo",
    "Casterman",
    "Castle Rain",
    "Catalan Communications",
    "Catastrophic Comics",
    "Catwild Publications",
    "Celebrity",
    "Cellar Door Publishing",
    "Centaur",
    "Central Park Media",
    "Century Publications",
    "Cepim",
    "Cge From",
    "Channel M",
    "Chanting Monks Studios",
    "Chaotic Unicorn Press",
    "Charlton",
    "Checker Book Publishing Group",
    "Cherry",
    "Cherry Comics",
    "Chicago Mail Order Comics",
    "Chick Publications",
    "Children",
    "Chronicle Books",
    "Chuang Yi",
    "Cinebooks",
    "Circle Media",
    "Cirkelf",
    "Claypool Comics",
    "Club 408 Graphics",
    "Coffin Comics",
    "Colburn Comics",
    "Colour Comics Pty Ltd",
    "Columbia Comics",
    "Com.X",
    "Comely Comix",
    "Comic Art",
    "Comic Book Legal Defense Fund",
    "Comic Legends Legal Defense Fund",
    "Comic Media",
    "Comic Shop News Inc.",
    "Comico",
    "Comics Interview",
    "Comics Unlimited Inc.",
    "Comicsonair Publications",
    "Commercial Comics",
    "Commercial Signs Of Canada",
    "Committed Comics",
    "Company & Sons",
    "Comunicaciones Graficas Comgraf",
    "Condor Verlag",
    "Coniglio Editore",
    "Conquest Press",
    "Continuity",
    "Continum",
    "Conundrum Press",
    "Corgi",
    "Corriere Della Sera",
    "Crack",
    "Cracked Pepper Productions",
    "Craf Publishers",
    "CrankLeft",
    "Creative Impulse Publishing",
    "Creative One",
    "Creators Edge Press",
    "Creston Publishing Corporation",
    "Critical Mass",
    "Cross Plains Comics",
    "Cross Publications",
    "Crossgen",
    "Crown Publishers",
    "Croydon Publishing",
    "Crusade",
    "Crush Dice Comics Company",
    "Cry For Dawn Productions",
    "Cryptic Press",
    "Crystal Comics",
    "Ctrl Alt Del",
    "Cult Press",
    "Cupples & Leon",
    "Cyberosia Publishing",
    "Cyclone Comics",
    "D. S. Publishing",
    "D.C. Thomson & Co.",
    "DK Publishing",
    "DQU COMICS",
    "DWAP Productions",
    "Dab Enterprises",
    "Dabel Brothers Productions",
    "Dagens Nyheters F",
    "Dagger Enterprises",
    "Daim Press",
    "Dakuwaka Productions",
    "Dancing Elephant Press",
    "Danity Kane Comics",
    "Dare Comics",
    "Dargaud",
    "Dark Elf Designs",
    "Dark Fantasy Production",
    "Dark Ocean Studios",
    "Darkchylde Entertainment",
    "Darkmatter",
    "David Mckay",
    "David Miller Studios",
    "Dead Dog",
    "Dead Numbat Productions",
    "DeadBox Art Studio",
    "Deadline Publications Ltd.",
    "Def Con Comics",
    "Defiant",
    "Del Rey",
    "Dell",
    "Delta Verlag",
    "Deluxe",
    "Deluxe Comics",
    "Dengeki",
    "Dennis F",
    "Der Freibeuter",
    "Determined Productions, Inc.",
    "Devil's Due",
    "Dial \"C\" for Comics",
    "DigiCube",
    "Digital Manga Distribution",
    "Digital Webbing",
    "Dimension Graphics",
    "Dimestore Productions",
    "Dino Comics",
    "Disney",
    "Diva Graphix",
    "Do Gooder Press",
    "Dobry Komiks",
    "Dolmen Publishing",
    "Dork Storm",
    "Double A Comics",
    "Double Edge Publications",
    "Dover Publications",
    "Dr Master Productions",
    "DrMaster Publications Inc.",
    "Dragon Candy Productions",
    "Dragon Comics",
    "Dragon Lady Press",
    "Dramenon Studios",
    "Drawn",
    "Drawn & Quarterly",
    "Dreamwave Productions",
    "Drumfish Productions",
    "Dupuis",
    "Dynamic Forces",
    "Dynamite",
    "E",
    "Eagle Comics",
    "Eastern Color",
    "Eastern Comics",
    "Ec",
    "Echo 3 Worldwide",
    "Eclectic Comix",
    "Eclipse",
    "Eddie Campbell Comics",
    "Eden",
    "Edgewater Comics",
    "Ediciones B",
    "Ediciones Jos{U+00E9} G. Cruz",
    "Ediciones La C{U+00FA}pula S.L.",
    "Ediciones Latinoamericanas",
    "Ediciones de la Flor",
    "Edifumetto",
    "Ediperiodici",
    "Edition C",
    "Editions First - Gr{U+00FC}nd - Dragon d'Or",
    "{U+00C9}ditions Gl{U+00E9}nat",
    "Editions La Joie de Lire",
    "Editor",
    "Editora Trama",
    "Editora Vord",
    "Editorial Alfaguara",
    "Editorial Ejea",
    "Editorial Greco (Grupo Editorial Colombiano)",
    "Editorial Icavi Ltda.",
    "Editorial Juventud",
    "Editorial Manuel del Valle",
    "Editorial Novaro",
    "Editorial OEPISA",
    "Editorial Rodriguez",
    "Editorial Televisa",
    "Editorial Toukan",
    "Editorial Tucuman",
    "Editoriale Corno",
    "Editoriale Mercury",
    "Editormex Mexicana",
    "Editrice Cenisio",
    "Editrice Puntozero",
    "Edizioni Alpe",
    "Edizioni Araldo",
    "Edizioni Audace",
    "Edizioni BD",
    "Edizioni San Paolo",
    "Edizioni Star Comics",
    "Edizioni d{U+2019}Arte {U+201C}Lo Scarabeo{U+201D}",
    "Educomics",
    "Edwin Aprill",
    "Eerie Publications",
    "Egmont",
    "Ehapa Verlag",
    "El Capitan",
    "El Mundo",
    "Electric Spaghetti Comics",
    "Elevenstone Studios",
    "Elite Comics",
    "Elvifrance",
    "Empresa Editora Zig Zag S.A.",
    "Endless Horizons Entertainment",
    "Enemy Transmission",
    "Enigma Comics",
    "Enterbrain",
    "Entity",
    "Entity Comics",
    "Enwill Associates",
    "Epix",
    "Eros Comix",
    "Esteem Comics",
    "Etc",
    "Eternal",
    "Eternity",
    "Eura Editoriale",
    "Eurotica",
    "Event Comics",
    "Everyman Studios",
    "Evil Twin Comics",
    "Evolution Comics",
    "Excellent Publications",
    "Exploding Albatross Funnybooks",
    "Express",
    "Extreme",
    "F",
    "FC9",
    "Fabel",
    "Factoid Books",
    "False Idol Studios",
    "Famous Funnies",
    "Fandom House",
    "Fangoria",
    "Fantaco",
    "Fantaco Enterprises",
    "Fantagor Press",
    "Fantagraphics",
    "Farrar, Straus, and Giroux",
    "Fathom Press",
    "Fawcett Publications",
    "Feest Comics",
    "Felix Comics Inc.",
    "Femme Fatales Comics",
    "Fenickx Productions",
    "Ferret Press",
    "Fiasco Comics",
    "Fiction House",
    "Fiery Studios",
    "Filmation",
    "Fireman Press LTD.",
    "First",
    "First Salvo",
    "First Second Books",
    "Fishtales Inc Productions",
    "Fishwrap Production",
    "Fitzgerald Publishing Company",
    "Flaming Face Productions",
    "Fleetway",
    "Fluid Friction",
    "Fluide Glacial",
    "Forbidden Fruit",
    "Formatic",
    "Fortress Publishing",
    "Four Star Publications",
    "Fox",
    "Fox Atomic Comics",
    "Foxtrot",
    "Fragile Press",
    "Franco Cosimo Panini",
    "Frew Publications",
    "Friendly",
    "Frightworld",
    "Full Bleed Studios",
    "Full Circle Publications",
    "Full Impact Comics",
    "Full Stop Media",
    "Fun Publications",
    "Funk-O-Tron",
    "Funnies Inc",
    "Furio Viano Editore",
    "Futabasha Publishers Ltd.",
    "Future Comics",
    "FutureQuake Press",
    "Futuropolis",
    "G & T Enterprises",
    "G. Vincent Edizioni",
    "GG Studio",
    "Galassia",
    "Galaxinovels",
    "Galaxy Publishing",
    "Game Players Comics",
    "Games Workshop",
    "Gangan Comics",
    "Garage Graphix",
    "Gary Philips",
    "Gauntlet Comics",
    "Gaviota",
    "Gearbox Press",
    "Gebers",
    "Gem Publications",
    "Gemestone Publ.",
    "Gemstone",
    "General Electric Company",
    "Generation Comics",
    "Genesis West",
    "Genome Studios",
    "George A. Pflaum",
    "Georgia Straight",
    "Giant in the Playground",
    "Gilberton Publications",
    "Gilmor",
    "Gladstone",
    "Glenat Italia",
    "Globe Communications",
    "Gold Key",
    "Gold Star Publications Ltd.",
    "Golden Press",
    "Golfing / McCombs",
    "Good Comics, Inc",
    "Gotham Entertainment Group",
    "Granata Press",
    "Grand Central Publishing",
    "Graphic Arts Service, Inc.",
    "Graton Editeur",
    "Gratuitous Bunny Comix",
    "Great Big Comics",
    "Great Publications",
    "Great Smoky Mountains Historical Association",
    "Greater Mercury",
    "Green Man Press",
    "Green Publishing",
    "Grosset And Dunlap, Inc.,",
    "Ground Zero Comics",
    "Grupo Editorial Vid",
    "Guild Publications",
    "Gutsoon",
    "H. C. Blackerby",
    "H. H. Windsor",
    "HB Comics",
    "HELOCK COMICS",
    "HM Communications",
    "Hachette",
    "Hall Of Heroes",
    "Hallden",
    "Halloween",
    "Hamilton Comics",
    "Hammarstr",
    "Hamster Press",
    "Hand Of Doom Publications",
    "Handelsanst",
    "Happy Comics Ltd.",
    "Harpercollins",
    "Harperperennial",
    "Harrier",
    "Harris Comics",
    "Harry A. Chesler/Dynamic",
    "Harry N. Abrams",
    "Harvey",
    "Harvey Pekar",
    "Hasbro",
    "Hays Entertainment",
    "Headless Shakespeare Press",
    "Heavy Metal",
    "Helsinki Media",
    "Hemmets Journal Ab",
    "Heretic Press",
    "Hero Initiative",
    "Hero Universe",
    "Heroscribe Comics!",
    "Hershenson",
    "Hi No Tori Studio",
    "High Impact Entertainment",
    "High Top",
    "Highwater",
    "Highway 62 Press",
    "Hillman",
    "Holyoke",
    "Hot Comics",
    "Hound Comics",
    "Howard, Ainslee & Co.",
    "Hugh Lauter Levin Associates",
    "Humanoids",
    "Hurricane Entertainment",
    "Hyperwerks",
    "Hyperwrench Productions",
    "I.C.E. Comics",
    "I.W. Publishing",
    "IDW Publishing",
    "INFINITY Publishing",
    "INNFUSION",
    "IPC Magazines Ltd.",
    "Icarus Publications",
    "Ice Kunion",
    "Ideals Publishing",
    "If Edizioni",
    "Iguana Comics",
    "Illustrated Humor Inc",
    "Immortelle Studios",
    "Imperium Comics",
    "In the Public Domain",
    "Industrial Services",
    "Infinity Comics",
    "Infinity Studios",
    "Infocom",
    "Innovation",
    "Insight Editions",
    "Insomnia Press",
    "International Presse Magazine",
    "Iron Circus Comics",
    "Islas Filipinas Publishing Co.",
    "J",
    "JGM Comics",
    "Jabberwocky Graphix",
    "Jack Rabbit Stewdios",
    "Jademan",
    "Jemi F",
    "Jetpack Press",
    "Jeunesse Joyeuse",
    "Jochen Enterprises",
    "Joe Deagnon",
    "John Andersson",
    "Jump Back Productions",
    "Jump Comics",
    "JuniorPress BV",
    "Juvee Comics",
    "K",
    "Kadokawa Shoten",
    "Kana",
    "Kappa Edizioni",
    "Kathang Indio",
    "Kean Soo",
    "Keenspot Entertainment",
    "Ken Pierce Inc.",
    "Kenzer And Company",
    "Key Publications",
    "Kickstart Comics",
    "King Comics",
    "King Features Syndicate",
    "King Hell",
    "Kirby Publishing Company",
    "Kitchen Sink",
    "Kitty Publications",
    "Kk",
    "Knockabout",
    "Known Associates Press",
    "Kodansha",
    "Krause Publications",
    "Kyle Baker Publishing",
    "L",
    "L. Miller & Son, Ltd",
    "L.F.P.",
    "LFB Luigi F. Bona",
    "La Musardine",
    "La Repubblica / L'Espresso",
    "Lab Rat Productions",
    "Last Gasp",
    "Layne Morgan Media",
    "Le Lombard",
    "Leadbelly Publications",
    "Leader Enterprises",
    "Leading Edge Comics",
    "Lee Beardall",
    "Legion Of Evil Press",
    "Lego",
    "Lerner Publishing Group",
    "Les Editions Dargaud",
    "Lev Gleason",
    "Liar Comics",
    "Lightning Comics",
    "Lightspeed Press",
    "Lindblads F",
    "Lindqvists",
    "Linsner.com",
    "Lion King",
    "Lion Library",
    "Literacy Volunteers Of Chicago",
    "Literary Enterprises",
    "Little, Brown & Co.",
    "Lodestone",
    "Lohman Hills",
    "London Night Studios",
    "Lone Star Press",
    "Lost Cause Productions",
    "Lubrix",
    "Lucky Dragon Comics",
    "Lumen",
    "M. F. Enterprises",
    "MAD Books",
    "MDS Studios",
    "MJF Books",
    "MVCreation",
    "Mad Dog Graphics",
    "Mad Love Publishing",
    "Mad Monkey Press",
    "Maerkle Press",
    "Magazine Enterprises",
    "Magazine Management",
    "Magazzini Salani",
    "Magic Press",
    "Magnus & Bunker",
    "Majestic Entertainment",
    "Major Magazines",
    "Malmborg",
    "Manga 18",
    "Mango Comics",
    "Mansion Comics",
    "Manuscript Press",
    "Maple Leaf Publishing",
    "Mark",
    "Markosia",
    "Marsu Productions",
    "Martin L. Greim",
    "Max Bunker Press",
    "Maximum Press",
    "McCain Ellio's Comics",
    "McK Publishing",
    "McMann & Tate",
    "Mcfarland",
    "Media Press",
    "Media Works",
    "Megaton Comics",
    "Memory Lane Publication",
    "Mercury Comics",
    "Metro Comics",
    "Metropolitan Books",
    "Midnight Sons",
    "Mighty Comics",
    "Mighty Pumpkin",
    "Millennium Publications",
    "Milson",
    "Mina Editores",
    "Mindgame Press Page One, Inc.",
    "Mirage",
    "Modern",
    "Mojo Press",
    "Mondial",
    "Monkeysuit Press",
    "Monster Comics",
    "Monsterverse",
    "Moonface Press",
    "Moonstone",
    "Morning Star Productions",
    "Mosaik Steinchen F",
    "Motorcycleboy Comics",
    "Mr. Comics",
    "Mu Press",
    "Mulehide Graphics",
    "Murray Comics",
    "NFPA",
    "Naked City",
    "Narwain",
    "Nate Butler",
    "Nation-Wide comics",
    "National Comics Publication",
    "National Comics Publications",
    "National Comics Publishing",
    "National Periodical Publications",
    "National Periodical Publications Inc",
    "Nationella Trafiks",
    "Nedor",
    "Neko Press",
    "NeoSun",
    "Neuer Tessloff Verlag",
    "New American Library",
    "New Comics Group",
    "New England Comics",
    "New Media Publications",
    "New Universe",
    "New Worlds",
    "Newsbook Publishing",
    "Newspaper: Funny Pages",
    "Nickel Editions",
    "Nicotat",
    "Night Wynd Enterprises",
    "No Mercy",
    "Noble Comics",
    "Norbert Hethke Verlag",
    "Norma Editorial",
    "Normans",
    "Northstar",
    "Nostalgia Press",
    "Novaris Entertainment",
    "Novedades Editores",
    "Novelty Press",
    "Now",
    "Ocean Comics",
    "Odhams Press",
    "Odyssey Comics",
    "Ok",
    "Oktomica",
    "Olio",
    "Olympian Publishing",
    "Olyoptics",
    "Oni Press",
    "Opal",
    "Orang Utan Comics",
    "Ordfront",
    "Orin Books",
    "Oscar Caesar",
    "Oval Projects Limited",
    "P.F. Volland Company",
    "PSG Publishing House",
    "Pacific",
    "Pacific Comics",
    "Palisades Press",
    "Palliard Press",
    "Pan",
    "Pandora Press",
    "Panini Comics",
    "Pantheon Books",
    "Paper Dragonz",
    "Paper Street Comics",
    "Paper Tiger Comics",
    "Paper Tiger Comix",
    "Papyrus Comics",
    "Paquet",
    "Parents",
    "Parker Editore",
    "Parody Press",
    "Penny Farthing",
    "Pentagon Publishing Co",
    "Penthouse Comics",
    "Peregrine Entertainment",
    "Personality",
    "Phelps Publishing",
    "Phi3 Comics",
    "Philomel Books",
    "Phoenix Fire Studios",
    "Picturebox",
    "Pied Piper",
    "Pines Comics",
    "Pingvinf",
    "Pinnacle Comics",
    "Pioneer Books Inc.",
    "Planet Comics",
    "Planet Publishing",
    "Planeta DeAgostini",
    "Platinum Studios Comics",
    "Play Press",
    "Playboy Press",
    "Pocket Books",
    "Point G Comics",
    "Politisk Revy",
    "Polystyle",
    "Pop Comics",
    "Popular Press",
    "Poseur Ink",
    "Possum Press",
    "Power Comics",
    "Power Records",
    "Praxis Comics",
    "Premier Magazines",
    "Pride Comics",
    "Primal Paper Comics",
    "Print Mint",
    "Prize",
    "Progressive",
    "Promotora K",
    "Publicaciones Herrerias",
    "Publication Enterprises",
    "Publistrip",
    "Pughouse Press",
    "Pulp Theatre",
    "Pure Imagination",
    "Purrsia",
    "Pyramid Communications",
    "Q Comics",
    "Quality Comics",
    "Quality Periodicals",
    "RAK Graphics",
    "RCS MediaGroup",
    "RDS Comics",
    "RSquared Studios",
    "Rab",
    "Rabbit Valley",
    "Radbu Productions",
    "Radical Publishing",
    "Radio Comics",
    "Rainbow Media",
    "Raj Comics",
    "Ralston-Purina Company",
    "Random House",
    "Rat Race Comix",
    "Real",
    "Real Free Press",
    "Realistic",
    "Realm Press",
    "Rebel Studios",
    "Rebellion",
    "Recollections",
    "Red 5 Comics",
    "Red Circle",
    "Red Clown",
    "Red Eagle Entertainment",
    "Red Top",
    "Redbud Studio",
    "Redhead Comics",
    "Regor Company",
    "Renaissance Press",
    "Renegade",
    "Reprodukt",
    "Revolutionary",
    "Rheem Water Heating",
    "Richters F",
    "Rip Off Press",
    "Rippu Shobo",
    "Robert laffont",
    "Rocket North Publishing",
    "Roger Corman's Cosmic Comics",
    "Ronin Studios",
    "Rooster Teeth Productions",
    "Rorschach Entertainment",
    "Rotopress",
    "Rude Dude Productions",
    "Running Press",
    "Rural Home",
    "Russ Cochran",
    "Rutledge Hill Press",
    "S",
    "SANS Entertainment Comics",
    "SNK Playmore",
    "SQP",
    "Saalfield Publishing Company",
    "SaberCat Comics",
    "Sackmann Und H",
    "Sacred Mountain",
    "Saint James",
    "Salvatore Taormina editore",
    "Sanoma Uitgevers",
    "Saxon",
    "Say/Bart Productions",
    "Scar Comics",
    "Schibsted",
    "Scholastic Book Services",
    "Schultz",
    "Scrap Pictures",
    "Se-Bladene",
    "Seaboard Publishing",
    "Second To Some",
    "Semic As",
    "Semic International",
    "Sergio Bonelli Editore",
    "Seven Seas Entertainment",
    "Shanda Fantasy Arts",
    "Shibalba Press",
    "Shinshokan",
    "Shivae Studios",
    "Shogakukan",
    "Shooting Star",
    "Showcase Publications",
    "Shueisha",
    "Sig Feuchtwanger",
    "Signet Books",
    "Silent Devil Productions",
    "Silent Nemesis Workshop",
    "SilverWolf",
    "Silverline",
    "Simon And Schuster",
    "Sirius Entertainment",
    "Skandinavisk Press",
    "Skatoon Productions",
    "Skywald",
    "Sleeping Giant Comics",
    "Sm",
    "Smithsonian Institution",
    "Softbank Creative",
    "Solson Publications",
    "Sombrero",
    "Son of Sam Productions",
    "Sound & Vision International",
    "Space Goat Productions",
    "Spacedog",
    "Spark Publications",
    "Speakeasy Comics",
    "Special Action Comics",
    "Special Studio",
    "Spectrum Comics",
    "Spilled Milk",
    "Spire Christian Comics",
    "Splitter",
    "Spotlight Comics",
    "Spotlight Publishers",
    "St",
    "St. Johns Publishing Co.",
    "Stampa Alternativa / Nuovi Equilibri",
    "Stanhall",
    "Stanley Publications",
    "Stanmor Publications",
    "Star",
    "Star Publications",
    "Star Reach Publications",
    "Starhead Comix",
    "Stats Etc",
    "Sterling",
    "Stopdragon",
    "Storm Lion Publishing",
    "Story Comics",
    "Straw Dog",
    "Strawberry Jam Comics",
    "Street & Smith",
    "Street And Smith",
    "Street and Steel",
    "Striker 3D",
    "Studio 407",
    "Studio Aries",
    "Studio Foglio",
    "Studio Insidio",
    "Studio Ironcat",
    "Super Publishing",
    "Superior Publishers Limited",
    "Sussex Publishing Co",
    "Svenska Serier",
    "Swappers Quarterly And Almanac",
    "T.R.I.B.E. Studio Comics",
    "TSR",
    "Ta Nea",
    "Tapestry",
    "Tekno Comix",
    "Tell Tale Publications",
    "Tempo Books",
    "Terminal Press",
    "Terra Major",
    "Terzopoulos",
    "Teshkeel Comics",
    "Tetragrammatron",
    "Th3rd World",
    "The 3-D Zone",
    "The Comic Times, Inc.",
    "The Heritage Collection",
    "The Scream Factory",
    "The Toy Man",
    "Thorby Enterprises",
    "Thoughts",
    "Thrill-House Comics",
    "Thunder Baas",
    "Time Bomb Comics",
    "Timeless Journey Comics",
    "Timely",
    "Timely Illustrated Features",
    "Tipografia M. Tomasina",
    "Titan Books",
    "Titan Magazines",
    "Toby",
    "Tom Doherty Associates",
    "Tom Stacey",
    "Tome Press",
    "Top Cow",
    "Top Shelf",
    "Topps",
    "Torpedo Comics",
    "Toutain Editor",
    "Tower",
    "Tower Books",
    "Transfuzion Publishing",
    "Transmission X Comics",
    "Trepidation Comics",
    "Trident Comics",
    "Trigon",
    "Triumph",
    "Triumphant",
    "Triumphant Comics",
    "Trojan",
    "True Believers Press",
    "True Patriot Studios",
    "Tumble Creek Press",
    "Tundra",
    "Tundra Uk",
    "Tusquets Editores",
    "Twomorrow",
    "Tyler James Comics",
    "UDON",
    "US Department of Health, Education and Welfare",
    "Uitgeverij C.I.C.",
    "Ultimate Comic Group",
    "Ultimate Creations",
    "Ultimate Sports Force",
    "Ungdomsmissionens V",
    "Unified Field Operations",
    "United Features",
    "Universe",
    "Utslag",
    "Utterly Strange Publications",
    "Valiant",
    "Valve",
    "Vanguard Productions",
    "Vents d'Ouest",
    "Vermillon",
    "Verotik",
    "Vertical Inc.",
    "Victor Gollancz Ltd.",
    "Victory",
    "View Askew",
    "Viper Comics",
    "Virgin Comics",
    "Virus Comix",
    "Vittorio Pavesio Productions",
    "Vivid Publishing",
    "Viz",
    "Viz Premiere",
    "Viz Select",
    "Vortex",
    "Vrijbuiter, De",
    "W.T. Grant",
    "WCG",
    "WSOY",
    "Wallace Wood",
    "Walt Disney Company Italia",
    "Warner Books",
    "Warner Brothers",
    "Warp Graphics",
    "Warren",
    "Warrior Publications",
    "Watson-Guptill Publications",
    "Webs Adventure Corporation",
    "Welsh Publishing Group",
    "Western Publishing.",
    "White Buffaloe Press",
    "White Lightning Productions",
    "Whitman",
    "Whitman Publishing",
    "Wicked Good Comics",
    "Wild and Wooly Press",
    "Wildcard Production",
    "William H Wise",
    "Williams F",
    "Willms Verlag",
    "Windjammer",
    "Winthers",
    "Wisconson Department Of justice",
    "Wonder Comix",
    "Work Horse Comics",
    "XL Creations",
    "Xanadu Publishing, Inc.",
    "Yen Press",
    "Yendie Book Publishing",
    "Yoe Studio",
    "Youthful",
    "ZOOLOOK",
    "Zenescope Entertainment",
    "Ziff",
    "Ziff Davis Media",
    "Zip Comics",
    "Zodiac",
    "Zuzupetal Press",
    "Zwerchfell",
    "comicsone.com",
    "eBay",
    "ffantasy ffactory",
    "iVerse Media",
    "inZane Comics",
    "mg/publishing",
    "self published",
    "talcMedia Press",
    "{U+00A1}Ka-Boom! Estudio S.A. de C.V." }

\* lines 122-1422
other_publishers_literal == other_publishers_parents \cup other_publishers_rest

\* lines 75-118 with "Homage comics" filed under Wildstorm, itself an imprint
imprint_map_literal_chained ==
    ("2000AD" :> "DC Comics") @@
    ("Adventure" :> "Malibu") @@
    ("America's Best Comics" :> "DC Comics") @@
    ("Wildstorm" :> "DC Comics") @@
    ("Antimatter" :> "Amryl Entertainment") @@
    ("Apparat" :> "Avatar Press") @@
    ("Black Bull" :> "Wizard") @@
    ("Blu Manga" :> "Tokyopop") @@
    ("Chaos! Comics" :> "Dynamite Entertainment") @@
    ("Cliffhanger" :> "DC Comics") @@
    ("CMX" :> "DC Comics") @@
    ("Dark Horse Manga" :> "Dark Horse Comics") @@
    ("Desperado Publishing" :> "Image") @@
    ("Epic" :> "Marvel") @@
    ("Focus" :> "DC Comics") @@
    ("Helix" :> "DC Comics") @@
    ("Hero Comics" :> "Heroic Publishing") @@
    ("Homage comics" :> "Wildstorm") @@
    ("Hudson Street Press" :> "Penguin Group") @@
    ("Icon Comics" :> "Marvel") @@
    ("Impact" :> "DC Comics") @@
    ("Jets Comics" :> "Hakusensha") @@
    ("KiZoic" :> "Ape Entertainment") @@
    ("Marvel Digital Comics Unlimited" :> "Marvel") @@
    ("Marvel Knights" :> "Marvel") @@
    ("Marvel Music" :> "Marvel") @@
    ("Max" :> "Marvel") @@
    ("Milestone" :> "DC Comics") @@
    ("Minx" :> "DC Comics") @@
    ("Papercutz" :> "Nbm") @@
    ("Paradox Press" :> "DC Comics") @@
    ("Piranha Press" :> "DC Comics") @@
    ("Razorline" :> "Marvel") @@
    ("ShadowLine" :> "Image") @@
    ("Sin Factory Comix" :> "Radio Comix") @@
    ("Slave Labor" :> "Slg Publishing") @@
    ("Soleil" :> "Marvel") @@
    ("Tangent Comics" :> "DC Comics") @@
    ("Tokuma Comics" :> "Tokuma Shoten") @@
    ("Ultraverse" :> "Malibu") @@
    ("Vertigo" :> "DC Comics") @@
    ("Zuda Comics" :> "DC Comics")

\* lines 75-118
imprint_map_literal ==
    ("2000AD" :> "DC Comics") @@
    ("Adventure" :> "Malibu") @@
    ("America's Best Comics" :> "DC Comics") @@
    ("Wildstorm" :> "DC Comics") @@
    ("Antimatter" :> "Amryl Entertainment") @@
    ("Apparat" :> "Avatar Press") @@
    ("Black Bull" :> "Wizard") @@
    ("Blu Manga" :> "Tokyopop") @@
    ("Chaos! Comics" :> "Dynamite Entertainment") @@
    ("Cliffhanger" :> "DC Comics") @@
    ("CMX" :> "DC Comics") @@
    ("Dark Horse Manga" :> "Dark Horse Comics") @@
    ("Desperado Publishing" :> "Image") @@
    ("Epic" :> "Marvel") @@
    ("Focus" :> "DC Comics") @@
    ("Helix" :> "DC Comics") @@
    ("Hero Comics" :> "Heroic Publishing") @@
    ("Homage comics" :> "DC Comics") @@
    ("Hudson Street Press" :> "Penguin Group") @@
    ("Icon Comics" :> "Marvel") @@
    ("Impact" :> "DC Comics") @@
    ("Jets Comics" :> "Hakusensha") @@
    ("KiZoic" :> "Ape Entertainment") @@
    ("Marvel Digital Comics Unlimited" :> "Marvel") @@
    ("Marvel Knights" :> "Marvel") @@
    ("Marvel Music" :> "Marvel") @@
    ("Max" :> "Marvel") @@
    ("Milestone" :> "DC Comics") @@
    ("Minx" :> "DC Comics") @@
    ("Papercutz" :> "Nbm") @@
    ("Paradox Press" :> "DC Comics") @@
    ("Piranha Press" :> "DC Comics") @@
    ("Razorline" :> "Marvel") @@
    ("ShadowLine" :> "Image") @@
    ("Sin Factory Comix" :> "Radio Comix") @@
    ("Slave Labor" :> "Slg Publishing") @@
    ("Soleil" :> "Marvel") @@
    ("Tangent Comics" :> "DC Comics") @@
    ("Tokuma Comics" :> "Tokuma Shoten") @@
    ("Ultraverse" :> "Malibu") @@
    ("Vertigo" :> "DC Comics") @@
    ("Zuda Comics" :> "DC Comics")

----------------------------------------------------------------------------
(* The tables the model runs with.  The module lists 42 imprints and 1299  *)
(* other publishers; the state keeps the entries of the names spelled out  *)
(* below, character by character.                                          *)

MARVEL == <<"M", "a", "r", "v", "e", "l">>
DC == <<"D", "C", " ", "C", "o", "m", "i", "c", "s">>

IconComics == <<"I", "c", "o", "n", " ", "C", "o", "m", "i", "c", "s">>
Vertigo == <<"V", "e", "r", "t", "i", "g", "o">>

Spell == ("Marvel" :> MARVEL) @@ ("DC Comics" :> DC)
         @@ ("Icon Comics" :> IconComics) @@ ("Vertigo" :> Vertigo)

\* __imprint_map once the module is loaded (lines 75-118)
imprint_map_loaded ==
    LET kept == (DOMAIN imprint_map_literal) \cap (DOMAIN Spell)
    IN  [k \in {Spell[n] : n \in kept} |->
            Spell[imprint_map_literal[CHOOSE n \in kept : Spell[n] = k]]]

\* __other_publishers once the module is loaded (lines 122-1422)
other_publishers_loaded ==
    {Spell[n] : n \in other_publishers_literal \cap (DOMAIN Spell)}

TInit ==
    /\ imprint_map = imprint_map_loaded
    /\ other_publishers = other_publishers_loaded

----------------------------------------------------------------------------
(* find_parent_publisher *)

\* a slip: the table is searched with the string as passed in
find_parent_publisher_unstripped(imprint_s) ==
    IF imprint_s \in DOMAIN imprint_map
    THEN imprint_map[imprint_s] ELSE imprint_s

\* a slip: the string passed in is returned when it is not an imprint
find_parent_publisher_passed_in(imprint_s) ==
    LET stripped == strip(imprint_s)
    IN  IF stripped \in DOMAIN imprint_map
        THEN imprint_map[stripped] ELSE imprint_s

LowerOf == ("V" :> "v") @@ ("I" :> "i") @@ ("C" :> "c") @@ ("D" :> "d")
           @@ ("M" :> "m") @@ ("Z" :> "z")
lower(s) == [i \in DOMAIN s |->
               IF s[i] \in DOMAIN LowerOf THEN LowerOf[s[i]] ELSE s[i]]

\* a slip: the table is searched without regard to letter case
find_parent_publisher_nocase(imprint_s) ==
    LET stripped == strip(imprint_s)
        hits == {k \in DOMAIN imprint_map : lower(k) = lower(stripped)}
    IN  IF hits # {} THEN imprint_map[CHOOSE k \in hits : TRUE] ELSE stripped

find_parent_publisher(imprint_s) ==
    LET stripped == strip(imprint_s)
        parent_s == IF stripped \in DOMAIN imprint_map
                    THEN imprint_map[stripped]
                    ELSE stripped
    IN  parent_s

\* a slip: the entry is taken out of the table when it is resolved
imprint_map_after_pop(table, imprint_s) ==
    [k \in (DOMAIN table) \ {strip(imprint_s)} |-> table[k]]

\* lines 47-51 assign the local names imprint_s and parent_s only: a call
\* leaves __imprint_map as it found it
imprint_map_after(table, imprint_s) == table

----------------------------------------------------------------------------
(* The strings callers pass in *)

PadChars == {" ", "\t", "\n"}

RECURSIVE SeqsUpTo(_, _)
SeqsUpTo(S, n) ==
    IF n = 0 THEN {<<>>}
    ELSE LET shorter == SeqsUpTo(S, n - 1)
         IN  shorter \cup {Append(s, c) : s \in shorter, c \in S}

Pads == SeqsUpTo(PadChars, MaxPad)

Z == <<"Z">>
vertigo == <<"v", "e", "r", "t", "i", "g", "o">>

Bases == (DOMAIN imprint_map) \cup other_publishers \cup
         { <<>>, Z, vertigo,
           <<"V", "e", "r", "t", "i", "g", "o", "!">>,
           <<"I", "c", "o", "n", "C", "o", "m", "i", "c", "s">>,
           <<"I", "c", "o", "n", " ", " ", "C", "o", "m", "i", "c", "s">>,
           <<"m", "a", "r", "v", "e", "l">>,
           <<"D", "C">> }

Inputs == {l \o b \o r : l \in Pads, b \in Bases, r \in Pads}

----------------------------------------------------------------------------
(* A caller of find_parent_publisher *)

RInit ==
    /\ rpc = "idle"
    /\ arg = <<>>
    /\ ret = <<>>

\* a caller passes in a string of the set S (line 36)
CallWith(S) ==
    /\ rpc = "idle"
    /\ arg' \in S
    /\ rpc' = "called"
    /\ UNCHANGED ret

Call == CallWith(Inputs)

\* the call runs and returns (lines 47-51)
Return ==
    /\ rpc = "called"
    /\ ret' = find_parent_publisher(arg)
    /\ imprint_map' = imprint_map_after(imprint_map, arg)
    /\ rpc' = "returned"
    /\ UNCHANGED <<arg, other_publishers>>

\* the caller is done with the result
Drop ==
    /\ rpc = "returned"
    /\ rpc' = "idle"
    /\ arg' = <<>>
    /\ ret' = <<>>

----------------------------------------------------------------------------
(* A second caller, running at the same time *)

CInit ==
    /\ rpc2 = "idle"
    /\ arg2 = <<>>
    /\ ret2 = <<>>

\* the strings two callers both pass in
SharedInputs ==
    {l \o b \o r : l \in {<<>>, <<" ">>}, b \in {Vertigo, vertigo, MARVEL},
                   r \in {<<>>, <<" ">>}}

Call2 ==
    /\ rpc2 = "idle"
    /\ arg2' \in SharedInputs
    /\ rpc2' = "called"
    /\ UNCHANGED ret2

Return2 ==
    /\ rpc2 = "called"
    /\ ret2' = find_parent_publisher(arg2)
    /\ imprint_map' = imprint_map_after(imprint_map, arg2)
    /\ rpc2' = "returned"
    /\ UNCHANGED <<arg2, other_publishers>>

Drop2 ==
    /\ rpc2 = "returned"
    /\ rpc2' = "idle"
    /\ arg2' = <<>>
    /\ ret2' = <<>>

----------------------------------------------------------------------------
(* The ComicVine site, as the script sees it *)

\* a publisher ComicVine lists and the module does not
NewPublisher == <<"Q", "&", "A">>

\* the names a listing page can show
Catalog == (DOMAIN imprint_map) \cup other_publishers \cup {NewPublisher}

\* the text of a name inside its <a> element: & is written &amp;
HtmlEncode(s) == [i \in DOMAIN s |-> IF s[i] = "&" THEN "&amp;" ELSE s[i]]

\* a page body, as the set of the texts of the <a> elements the pattern of
\* line 1464 captures; the page lays a name out bare, with whitespace around
\* it, or (in two cells) both ways
Styles == {"bare", "padded", "both"}
Render(names, style) ==
    LET bare == {HtmlEncode(n) : n \in names}
        padded == {<<"\n", " ">> \o HtmlEncode(n) \o <<" ">> : n \in names}
    IN  CASE style = "bare" -> bare
          [] style = "padded" -> padded
          [] style = "both" -> bare \cup padded

\* HttpUtility.HtmlDecode, on each captured text
HtmlDecode(s) == [i \in DOMAIN s |-> IF s[i] = "&amp;" THEN "&" ELSE s[i]]

----------------------------------------------------------------------------
(* The script *)

Unbound == <<>>
Handle(kind, p) == <<kind, p>>

\* what a call inside the try block can raise
Raised == {"WebException", "Exception"}

Line(kind, name, p, n) == <<kind, name, p, n>>
Emit(bag, lines) == bag (+) SetToBag(lines)

\* line 1465, the loop test
StopTest_empty(m, scraped) == m = {}
StopTest_retry(m, scraped) == m # {} /\ m \subseteq scraped
StopTest(m, scraped) == m \subseteq scraped

\* line 1467
Merge_new_only(scraped, m) == IF scraped = {} THEN m ELSE scraped
Merge(scraped, m) == scraped \cup m

\* lines 1466-1468, the progress line of a page
ProgressLines_always(stop, p, m) == {Line("Page", <<>>, p, Cardinality(m))}
ProgressLines(stop, p, m) ==
    IF stop THEN {} ELSE {Line("Page", <<>>, p, Cardinality(m))}

\* line 1443
NextPage_skip(p) == p + 2
NextPage(p) == p + 1

\* lines 1460-1462, on a body given as its captured texts
Decode(body) == {HtmlDecode(m) : m \in body}

\* lines 1463-1464
Extract(body) == {strip(m) : m \in body}

\* lines 1476-1484, the names of a table that were not scraped
NotInComicVine_all(table, scraped) == table
NotInComicVine(table, scraped) == {n \in table : n \notin scraped}

\* lines 1478, 1483, 1488: all_clear turns False when a loop reports a name
Clear_last(flag, found) == found = {}
Clear(flag, found) == flag /\ found = {}

\* lines 1486-1489
NotInModule_imprints(scraped) ==
    {n \in scraped : n \notin other_publishers}
NotInModule(scraped) ==
    {n \in scraped : n \notin DOMAIN imprint_map /\ n \notin other_publishers}

SInit ==
    /\ pc = "while"
    /\ page = 0
    /\ html = {}
    /\ matches = {}
    /\ done = FALSE
    /\ scraped_publishers = {}
    /\ reader = Unbound
    /\ responseStream = Unbound
    /\ response = Unbound
    /\ exc = "none"
    /\ closes = <<>>
    /\ requests = <<>>
    /\ out = SetToBag({Line("Gathering", <<>>, 0, 0)})
    /\ all_clear = FALSE
    /\ wex = Unbound
    /\ earlier = {}

\* a call of the try block raises e and control leaves the block
Raise(e) ==
    /\ exc' = e
    /\ pc' = IF e = "WebException" THEN "except" ELSE "finally"

\* lines 1442-1444: the loop test, page += 1, html = ""
While ==
    /\ pc = "while"
    /\ IF done
       THEN /\ pc' = "report"
            /\ UNCHANGED <<page, html, earlier>>
       ELSE /\ pc' = "GetResponse"
            /\ page' = NextPage(page)
            /\ html' = {}
            /\ earlier' = earlier \cup matches
    /\ UNCHANGED <<matches, done, scraped_publishers, reader, responseStream,
                   response, exc, closes, requests, out, all_clear, wex>>

\* lines 1446-1449
GetResponse ==
    /\ pc = "GetResponse"
    /\ requests' = Append(requests, page)
    /\ \/ /\ response' = Handle("response", page)
          /\ closes' = (Handle("response", page) :> 0) @@ closes
          /\ pc' = "GetResponseStream"
          /\ UNCHANGED exc
       \/ /\ \E e \in Raised : Raise(e)
          /\ UNCHANGED <<response, closes>>
    /\ UNCHANGED <<page, html, matches, done, scraped_publishers, reader,
                   responseStream, out, all_clear, wex, earlier>>

\* line 1450
GetResponseStream ==
    /\ pc = "GetResponseStream"
    /\ \/ /\ responseStream' = Handle("responseStream", page)
          /\ closes' = (Handle("responseStream", page) :> 0) @@ closes
          /\ pc' = "StreamReader"
          /\ UNCHANGED exc
       \/ /\ \E e \in Raised : Raise(e)
          /\ UNCHANGED <<responseStream, closes>>
    /\ UNCHANGED <<page, html, matches, done, scraped_publishers, reader,
                   response, requests, out, all_clear, wex, earlier>>

\* line 1451
StreamReader ==
    /\ pc = "StreamReader"
    /\ \/ /\ reader' = Handle("reader", page)
          /\ closes' = (Handle("reader", page) :> 0) @@ closes
          /\ pc' = "ReadToEnd"
          /\ UNCHANGED exc
       \/ /\ \E e \in Raised : Raise(e)
          /\ UNCHANGED <<reader, closes>>
    /\ UNCHANGED <<page, html, matches, done, scraped_publishers,
                   responseStream, response, requests, out, all_clear, wex,
                   earlier>>

\* line 1452
ReadToEnd ==
    /\ pc = "ReadToEnd"
    /\ \/ /\ \E names \in SUBSET Catalog, style \in Styles :
                html' = Render(names, style)
          /\ pc' = "finally"
          /\ UNCHANGED exc
       \/ /\ \E e \in Raised : Raise(e)
          /\ UNCHANGED html
    /\ UNCHANGED <<page, matches, done, scraped_publishers, reader,
                   responseStream, response, closes, requests, out,
                   all_clear, wex, earlier>>

\* lines 1453-1454
Except ==
    /\ pc = "except"
    /\ out' = Emit(out, {Line("unexpected web exception", <<>>, page, 0)})
    /\ wex' = Handle("WebException", page)
    /\ exc' = "none"
    /\ pc' = "finally"
    /\ UNCHANGED <<page, html, matches, done, scraped_publishers, reader,
                   responseStream, response, closes, requests, all_clear,
                   earlier>>

\* a slip: the stream and the response are closed only with a reader
Bound_with_reader ==
    IF reader = Unbound THEN {}
    ELSE {h \in {reader, responseStream, response} : h # Unbound}

\* the handles the names of lines 1456-1458 are bound to
Bound == {h \in {reader, responseStream, response} : h # Unbound}

\* lines 1455-1458; an exception that was not caught leaves the script
Finally ==
    /\ pc = "finally"
    /\ closes' = [h \in DOMAIN closes |->
                    IF h \in Bound THEN closes[h] + 1 ELSE closes[h]]
    /\ pc' = IF exc = "none" THEN "match" ELSE "aborted"
    /\ UNCHANGED <<page, html, matches, done, scraped_publishers, reader,
                   responseStream, response, exc, requests, out, all_clear, wex,
                   earlier>>

\* lines 1460-1468
Match ==
    /\ pc = "match"
    /\ html' = Decode(html)
    /\ matches' = Extract(html')
    /\ done' = StopTest(matches', scraped_publishers)
    /\ scraped_publishers' = IF done' THEN scraped_publishers
                             ELSE Merge(scraped_publishers, matches')
    /\ out' = Emit(out, ProgressLines(done', page, matches'))
    /\ pc' = "while"
    /\ UNCHANGED <<page, reader, responseStream, response, exc, closes,
                   requests, all_clear, wex, earlier>>

\* lines 1473-1479
ReportImprints ==
    /\ pc = "report"
    /\ LET gone == NotInComicVine(DOMAIN imprint_map, scraped_publishers)
       IN  /\ all_clear' = Clear(TRUE, gone)
           /\ out' = Emit(Emit(out, {Line("", <<>>, 0, 0)}),
                          {Line("Not in ComicVine", n, 0, 0) : n \in gone})
    /\ pc' = "report others"
    /\ UNCHANGED <<page, html, matches, done, scraped_publishers, reader,
                   responseStream, response, exc, closes, requests, wex, earlier>>

\* lines 1481-1484
ReportOthers ==
    /\ pc = "report others"
    /\ LET gone == NotInComicVine(other_publishers, scraped_publishers)
       IN  /\ all_clear' = Clear(all_clear, gone)
           /\ out' = Emit(out, {Line("Not in ComicVine", n, 0, 0) : n \in gone})
    /\ pc' = "report scraped"
    /\ UNCHANGED <<page, html, matches, done, scraped_publishers, reader,
                   responseStream, response, exc, closes, requests, wex, earlier>>

\* lines 1486-1489
ReportScraped ==
    /\ pc = "report scraped"
    /\ LET new == NotInModule(scraped_publishers)
       IN  /\ all_clear' = Clear(all_clear, new)
           /\ out' = Emit(out, {Line("Not in module", n, 0, 0) : n \in new})
    /\ pc' = "all clear"
    /\ UNCHANGED <<page, html, matches, done, scraped_publishers, reader,
                   responseStream, response, exc, closes, requests, wex, earlier>>

\* lines 1491-1492
AllClear ==
    /\ pc = "all clear"
    /\ out' = IF all_clear
              THEN Emit(out, {Line("Nothing to update!", <<>>, 0, 0)})
              ELSE out
    /\ pc' = "exit"
    /\ UNCHANGED <<page, html, matches, done, scraped_publishers, reader,
                   responseStream, response, exc, closes, requests, all_clear, wex,
                   earlier>>

----------------------------------------------------------------------------
(* Specifications *)

Init == TInit /\ CInit /\ RInit /\ SInit

Next ==
    \/ (While /\ UNCHANGED <<tvars, cvars, rvars>>)
    \/ (GetResponse /\ UNCHANGED <<tvars, cvars, rvars>>)
    \/ (GetResponseStream /\ UNCHANGED <<tvars, cvars, rvars>>)
    \/ (StreamReader /\ UNCHANGED <<tvars, cvars, rvars>>)
    \/ (ReadToEnd /\ UNCHANGED <<tvars, cvars, rvars>>)
    \/ (Except /\ UNCHANGED <<tvars, cvars, rvars>>)
    \/ (Finally /\ UNCHANGED <<tvars, cvars, rvars>>)
    \/ (Match /\ UNCHANGED <<tvars, cvars, rvars>>)
    \/ (ReportImprints /\ UNCHANGED <<tvars, cvars, rvars>>)
    \/ (ReportOthers /\ UNCHANGED <<tvars, cvars, rvars>>)
    \/ (ReportScraped /\ UNCHANGED <<tvars, cvars, rvars>>)
    \/ (AllClear /\ UNCHANGED <<tvars, cvars, rvars>>)

\* the script
Spec == Init /\ [][Next]_vars

ResolverInit == Init

ResolverNext ==
    \/ (Call /\ UNCHANGED <<tvars, cvars, svars>>)
    \/ (Return /\ UNCHANGED <<cvars, svars>>)
    \/ (Drop /\ UNCHANGED <<tvars, cvars, svars>>)

\* callers of find_parent_publisher
ResolverSpec == ResolverInit /\ [][ResolverNext]_vars

\* the pages the site serves while two callers run: the whole listing
SharedBodies == {Render(Catalog, "bare")}

CallersNext ==
    \/ (CallWith(SharedInputs) /\ UNCHANGED <<tvars, cvars, svars>>)
    \/ (Return /\ UNCHANGED <<cvars, svars>>)
    \/ (Drop /\ UNCHANGED <<tvars, cvars, svars>>)
    \/ (Call2 /\ UNCHANGED <<tvars, rvars, svars>>)
    \/ (Return2 /\ UNCHANGED <<rvars, svars>>)
    \/ (Drop2 /\ UNCHANGED <<tvars, rvars, svars>>)
    \/ (While /\ UNCHANGED <<tvars, cvars, rvars>>)
    \/ (GetResponse /\ UNCHANGED <<tvars, cvars, rvars>>)
    \/ (GetResponseStream /\ UNCHANGED <<tvars, cvars, rvars>>)
    \/ (StreamReader /\ UNCHANGED <<tvars, cvars, rvars>>)
    \/ (ReadToEnd /\ (pc' = "finally" => html' \in SharedBodies)
                  /\ UNCHANGED <<tvars, cvars, rvars>>)
    \/ (Except /\ UNCHANGED <<tvars, cvars, rvars>>)
    \/ (Finally /\ UNCHANGED <<tvars, cvars, rvars>>)
    \/ (Match /\ UNCHANGED <<tvars, cvars, rvars>>)
    \/ (ReportImprints /\ UNCHANGED <<tvars, cvars, rvars>>)
    \/ (ReportOthers /\ UNCHANGED <<tvars, cvars, rvars>>)
    \/ (ReportScraped /\ UNCHANGED <<tvars, cvars, rvars>>)
    \/ (AllClear /\ UNCHANGED <<tvars, cvars, rvars>>)

\* two callers of find_parent_publisher and a run of the script, interleaved
CallersSpec == Init /\ [][CallersNext]_vars

----------------------------------------------------------------------------
(* Properties of find_parent_publisher *)

\* t is s without its leading and trailing whitespace
IsTrimOf(t, s) ==
    /\ t # <<>> => (t[1] \notin Whitespace /\ t[Len(t)] \notin Whitespace)
    /\ \E i \in 0..Len(s) : \E j \in i..Len(s) :
          /\ t = SubSeq(s, i + 1, j)
          /\ \A n \in 1..i : s[n] \in Whitespace
          /\ \A n \in (j + 1)..Len(s) : s[n] \in Whitespace

\* the argument, trimmed, is a key of the imprint table
ArgIsImprint == \E k \in DOMAIN imprint_map : IsTrimOf(k, arg)

\* C1: when the argument, trimmed of surrounding whitespace, is a key of the
\* imprint table, the call returns the parent the table maps that key to
C1_ImprintResolved ==
    rpc = "returned" =>
        \A k \in DOMAIN imprint_map : IsTrimOf(k, arg) => ret = imprint_map[k]

C1_Witness ==
    /\ rpc = "returned"
    /\ arg = <<" ", " ">> \o Vertigo \o <<" ", " ">>
    /\ ret = DC

----------------------------------------------------------------------------
(* Properties of the script *)

\* the positions after the while loop has been left by its test
AfterLoop == {"report", "report others", "report scraped", "all clear", "exit"}

\* the current page has been matched against the accumulated names
PageProcessed == page > 0 /\ pc \in {"while"} \cup AfterLoop

\* the names printed in lines of one kind
Printed(kind) == {l[2] : l \in {x \in BagToSet(out) : x[1] = kind}}

WexLine(k) == Line("unexpected web exception", <<>>, k, 0)

\* C4: the loop stops at a page exactly when the names extracted from it
\* are all among the names of the earlier pages: a page with a new name
\* does not stop it, an empty or a repeating page does, and the report is
\* reached only from such a page
C4_StopsAtFirstRepeat ==
    /\ PageProcessed => (done <=> matches \subseteq earlier)
    /\ pc \in AfterLoop => (done /\ matches \subseteq earlier)

C4_Witness ==
    /\ pc = "report"
    /\ page = 3
    /\ matches # {}
    /\ matches \subseteq earlier

\* C5: when the loop has stopped, the accumulated set is the union of the
\* name sets of the pages before the stopping page, and pages 1..page were
\* each requested once, the stopping page included
C5_UnionOfEarlierPages ==
    pc \in AfterLoop =>
        /\ scraped_publishers = earlier
        /\ requests = [i \in 1..page |-> i]

\* page 1 = {A, B}, page 2 = {A, B}: the result is {A, B} after two fetches
C5_Witness ==
    /\ pc = "report"
    /\ page = 2
    /\ matches = {Vertigo, DC}
    /\ scraped_publishers = {Vertigo, DC}
    /\ requests = <<1, 2>>

\* C6: once the fetch of page k has raised a WebException, it is printed
\* once, page k yields no names, the loop stops in that iteration, pages
\* 1..k are the only ones requested (k once), and the accumulated set is
\* the union of pages 1..k-1
C6_TransportFailureStops ==
    /\ (pc = "except" \/ wex # Unbound) =>
          /\ requests = [i \in 1..page |-> i]
          /\ html = {}
          /\ pc \in {"except", "finally", "match", "while"} \cup AfterLoop
    /\ wex # Unbound =>
          /\ wex = Handle("WebException", page)
          /\ CopiesIn(WexLine(page), out) = 1
          /\ PageProcessed =>
                (matches = {} /\ done /\ scraped_publishers = earlier)
    /\ wex = Unbound => \A l \in BagToSet(out) : l[1] # WexLine(0)[1]

C6_Witness ==
    /\ pc = "exit"
    /\ wex = Handle("WebException", 3)
    /\ Handle("response", 3) \in DOMAIN closes
    /\ scraped_publishers # {}

\* C7: every handle acquired in a page iteration has been closed when the
\* iteration ends: the handles of earlier pages are closed, and so are
\* those of the current page once the finally block has run
C7_HandlesClosed ==
    \A h \in DOMAIN closes :
        (h[2] < page \/ pc \notin {"GetResponseStream", "StreamReader",
                                   "ReadToEnd", "except", "finally"})
            => closes[h] >= 1

\* the stream was opened, the construction of the reader failed
C7_Witness ==
    /\ pc \in {"match", "aborted"}
    /\ Handle("responseStream", page) \in DOMAIN closes
    /\ Handle("reader", page) \notin DOMAIN closes
    /\ closes[Handle("responseStream", page)] >= 1

\* C8: after the two loops over the tables, the names printed as
\* "Not in ComicVine" are the imprint-table keys and the other publishers
\* that are not in the accumulated set, and only those
C8_RemovedReported ==
    pc \in {"report scraped", "all clear", "exit"} =>
        /\ Printed("Not in ComicVine") =
              ((DOMAIN imprint_map) \cup other_publishers)
                 \ scraped_publishers
        /\ Printed("Not in ComicVine") \cap scraped_publishers = {}

C8_Witness ==
    /\ pc = "exit"
    /\ Printed("Not in ComicVine") = {Vertigo, MARVEL}
    /\ scraped_publishers = {IconComics, DC, NewPublisher}

\* C9: after the loop over the accumulated set, the names printed as
\* "Not in module" are the accumulated names that are neither an
\* imprint-table key nor an other publisher, each printed once
C9_NewReported ==
    pc \in {"all clear", "exit"} =>
        /\ Printed("Not in module") =
              scraped_publishers
                 \ ((DOMAIN imprint_map) \cup other_publishers)
        /\ \A l \in BagToSet(out) : l[1] = "Not in module" => out[l] = 1

C9_Witness ==
    /\ pc = "exit"
    /\ Printed("Not in module") = {NewPublisher}
    /\ Vertigo \in scraped_publishers

NothingLine == Line("Nothing to update!", <<>>, 0, 0)

\* C10: "Nothing to update!" is printed exactly in the runs whose
\* accumulated set is the union of the imprint-table keys and the other
\* publishers, and never together with a "Not in ..." line
C10_NothingToUpdate ==
    /\ pc = "exit" =>
          (BagIn(NothingLine, out) <=>
              scraped_publishers = (DOMAIN imprint_map) \cup other_publishers)
    /\ BagIn(NothingLine, out) =>
          /\ pc = "exit"
          /\ out[NothingLine] = 1
          /\ Printed("Not in ComicVine") = {}
          /\ Printed("Not in module") = {}

C10_Witness ==
    /\ pc = "exit"
    /\ BagIn(NothingLine, out)
    /\ page > 2

\* the pages that were matched and did not stop the loop
Continued == IF pc = "while" /\ ~done THEN page ELSE page - 1

PageLines == {l \in BagToSet(out) : l[1] = "Page"}

\* C11 as stated: a progress line is printed for every page fetched, with
\* the running count of names, so that a run whose loop has stopped has as
\* many progress lines as pages fetched
C11_LinePerPageFetched ==
    /\ pc \in AfterLoop =>
          BagCardinality([l \in PageLines |-> out[l]]) = Len(requests)
    /\ (pc = "while" /\ page > 0) =>
          BagIn(Line("Page", <<>>, page, Cardinality(scraped_publishers)), out)

\* C11, amended: a progress line is printed once for every page that did
\* not stop the loop, and for no other page, with the number of names
\* extracted from that page; when the loop has stopped there is one line
\* less than pages fetched
C11_LinePerContinuingPage ==
    /\ {l[3] : l \in PageLines} = 1..Continued
    /\ \A l \in PageLines : out[l] = 1
    /\ Cardinality(PageLines) = Continued
    /\ (pc = "while" /\ ~done /\ page > 0) =>
          BagIn(Line("Page", <<>>, page, Cardinality(matches)), out)
    /\ pc \in AfterLoop => Cardinality(PageLines) = Len(requests) - 1

\* page 2 repeated a name of page 1 and added one: its line counts 2
C11_Witness ==
    /\ pc = "exit"
    /\ Len(requests) = 3
    /\ BagIn(Line("Page", <<>>, 1, 1), out)
    /\ BagIn(Line("Page", <<>>, 2, 2), out)
    /\ Cardinality(scraped_publishers) = 2

\* C12: every run reaches the end of the report: the script stops nowhere
\* but after its last line
C12_RunCompletes == pc = "exit" \/ ENABLED Next

\* C16: the accumulator is empty before the first request, the pages
\* requested are 1, 2, .. in this order, each once, and a page after the
\* first is requested only when the page before it has been closed, matched
\* and merged without stopping the loop
C16_PagesInOrder ==
    /\ requests = [i \in 1..Len(requests) |-> i]
    /\ Len(requests) = IF pc = "GetResponse" THEN page - 1 ELSE page
    /\ requests = <<>> => scraped_publishers = {}
    /\ (pc = "GetResponse" /\ page > 1) =>
          /\ ~done
          /\ matches # {}
          /\ matches \subseteq scraped_publishers
          /\ BagIn(Line("Page", <<>>, page - 1, Cardinality(matches)), out)
          /\ \A h \in DOMAIN closes : closes[h] >= 1

C16_Witness ==
    /\ pc = "GetResponseStream"
    /\ requests = <<1, 2, 3>>

\* C17: no reader, stream or response receives Close() more than once, in
\* the runs that no exception leaves
C17_ClosedAtMostOnce ==
    (exc = "none" /\ pc # "aborted") =>
        \A h \in DOMAIN closes : closes[h] <= 1

----------------------------------------------------------------------------
(* Properties of the tables *)

\* C13: in every state that calls of two callers and a run of the script
\* reach, both tables are as the module loaded them, and two calls with the
\* same argument have returned the same string
C13_NoSideEffects ==
    /\ imprint_map = imprint_map_loaded
    /\ other_publishers = other_publishers_loaded
    /\ (rpc = "returned" /\ rpc2 = "returned" /\ arg = arg2) => ret = ret2

\* both callers resolved " Vertigo" while the script ran to its end
C13_Witness ==
    /\ pc = "exit"
    /\ rpc = "returned"
    /\ rpc2 = "returned"
    /\ arg = <<" ">> \o Vertigo
    /\ arg2 = arg
    /\ ret = DC
    /\ ret2 = DC

\* C14: every parent the imprint table maps to is a member of the set of
\* other publishers, in the tables as written and in the tables of every
\* state
C14_ParentsArePublishers ==
    /\ \A k \in DOMAIN imprint_map_literal :
          imprint_map_literal[k] \in other_publishers_literal
    /\ \A k \in DOMAIN imprint_map : imprint_map[k] \in other_publishers

C14_Witness ==
    /\ rpc = "returned"
    /\ arg = IconComics
    /\ ret = MARVEL
    /\ ret \in other_publishers

\* C15: no key of the imprint table is a member of the set of other
\* publishers, in the tables as written and in the tables of every state
C15_ImprintsAreNotPublishers ==
    /\ (DOMAIN imprint_map_literal) \cap other_publishers_literal = {}
    /\ (DOMAIN imprint_map) \cap other_publishers = {}

C15_Witness ==
    /\ rpc = "returned"
    /\ strip(arg) \in DOMAIN imprint_map
    /\ strip(arg) \notin other_publishers
    /\ ret \in other_publishers
    /\ arg # strip(arg)

\* C18: no parent the imprint table maps to is itself a key of the table,
\* so the string a call returned is not a key and resolves to itself
C18_ResolvedInOneStep ==
    /\ \A k \in DOMAIN imprint_map_literal :
          imprint_map_literal[k] \notin DOMAIN imprint_map_literal
    /\ rpc = "returned" =>
          /\ ret \notin DOMAIN imprint_map
          /\ find_parent_publisher(ret) = ret

C18_Witness ==
    /\ rpc = "returned"
    /\ arg = Vertigo \o <<"\n">>
    /\ ret = DC
    /\ find_parent_publisher(ret) = DC

====
